---- MODULE Spec2Model ----
(***************************************************************************)
(* A model of the ircv3 client library: the raw-line codec (Message.parse, *)
(* parsePrefix, parseTags), the parameter-specification engine             *)
(* (parseParams, create, checkParam, toString), the reply predicates of    *)
(* the message types (isResponseTo, endsResponseTo) and the client's       *)
(* receive path with its reply captures.                                   *)
(*                                                                         *)
(* Strings are sequences of one-character strings, so that splitting,     *)
(* joining, trimming and the regular expressions of the source are         *)
(* computed and not assumed.                                               *)
(***************************************************************************)
EXTENDS Integers, Sequences, FiniteSets, TLC

(***************************************************************************)
(* Strings                                                                 *)
(***************************************************************************)
LowerChars == <<"a","b","c","d","e","f","g","h","i","j","k","l","m",
                "n","o","p","q","r","s","t","u","v","w","x","y","z">>

UpperChars == <<"A","B","C","D","E","F","G","H","I","J","K","L","M",
                "N","O","P","Q","R","S","T","U","V","W","X","Y","Z">>

DigitChars == {"0","1","2","3","4","5","6","7","8","9"}

Range(f) == { f[x] : x \in DOMAIN f }

IsLetter(c) == c \in Range(LowerChars) \cup Range(UpperChars)

IsDigit(c) == c \in DigitChars

\* String.prototype.toUpperCase, one character
ToUpperChar(c) ==
    IF c \in Range(LowerChars)
    THEN UpperChars[CHOOSE i \in DOMAIN LowerChars : LowerChars[i] = c]
    ELSE c

\* String.prototype.toUpperCase
ToUpperCase(s) == [i \in DOMAIN s |-> ToUpperChar(s[i])]

\* String.prototype.substr(1)
Substr1(s) == IF Len(s) = 0 THEN <<>> ELSE Tail(s)

\* the characters String.prototype.trim removes
WhiteSpace == {" ", "\t", "\n", "\r"}

RECURSIVE TrimLeft(_)
TrimLeft(s) ==
    IF Len(s) > 0 /\ Head(s) \in WhiteSpace THEN TrimLeft(Tail(s)) ELSE s

RECURSIVE TrimRight(_)
TrimRight(s) ==
    IF Len(s) > 0 /\ s[Len(s)] \in WhiteSpace
    THEN TrimRight(SubSeq(s, 1, Len(s) - 1))
    ELSE s

\* String.prototype.trim
Trim(s) == TrimRight(TrimLeft(s))

\* String.prototype.split(sep) for a one-character separator: the pieces
\* between the separators, [""] for the empty string
RECURSIVE SplitFrom(_, _, _, _)
SplitFrom(s, sep, cur, acc) ==
    IF Len(s) = 0 THEN Append(acc, cur)
    ELSE IF Head(s) = sep THEN SplitFrom(Tail(s), sep, <<>>, Append(acc, cur))
    ELSE SplitFrom(Tail(s), sep, Append(cur, Head(s)), acc)

Split(s, sep) == SplitFrom(s, sep, <<>>, <<>>)

\* String.prototype.split(sep, 2): the first two pieces, the rest dropped
Split2(s, sep) ==
    LET all == Split(s, sep)
    IN  IF Len(all) <= 2 THEN all ELSE SubSeq(all, 1, 2)

\* Array.prototype.join(sep) for a one-character separator
RECURSIVE Join(_, _)
Join(parts, sep) ==
    IF Len(parts) = 0 THEN <<>>
    ELSE IF Len(parts) = 1 THEN parts[1]
    ELSE parts[1] \o <<sep>> \o Join(Tail(parts), sep)

\* an optional string: JavaScript's undefined, or a defined string
Undefined == [def |-> FALSE, v |-> <<>>]

Defined(s) == [def |-> TRUE, v |-> s]

(***************************************************************************)
(* Toolkit/StringTools.ts                                                  *)
(***************************************************************************)
\* control characters that have no escape in a TLA+ string, each one character
BS == "<BS>"

NUL == "<NUL>"

BELL == "<BEL>"

BQ == "<BACKQUOTE>"

\* the characters isChannel's negated class excludes: space, backspace
\* (in the template string the escape b is U+0008), NUL, LF, CR, comma
ChannelForbidden == {" ", BS, NUL, "\n", "\r", ","}

\* isChannel: the pattern ^[validTypes][^ \b\0\n\r,]+$ tested on str
isChannel(str, validTypes) ==
    /\ Len(str) >= 2
    /\ str[1] \in Range(validTypes)
    /\ \A i \in 2..Len(str) : str[i] \notin ChannelForbidden

(***************************************************************************)
(* Message types and their parameter specifications                       *)
(***************************************************************************)
Entry(name, trailing, rest, optional, type, match) ==
    [name |-> name, trailing |-> trailing, rest |-> rest,
     optional |-> optional, type |-> type, match |-> match]

\* CapabilityNegotiation.PARAM_SPEC
CapabilityNegotiationSpec ==
    << Entry("target",       FALSE, FALSE, TRUE,  "none", "target"),
       Entry("command",      FALSE, FALSE, FALSE, "none", "command"),
       Entry("version",      FALSE, FALSE, TRUE,  "none", "version"),
       Entry("continued",    FALSE, FALSE, TRUE,  "none", "continued"),
       Entry("capabilities", TRUE,  FALSE, TRUE,  "none", "none") >>

\* ClientQuit
ClientQuitSpec ==
    << Entry("message", TRUE, FALSE, TRUE, "none", "none") >>

\* ChannelInvite
ChannelInviteSpec ==
    << Entry("target",  FALSE, FALSE, FALSE, "none",    "none"),
       Entry("channel", FALSE, FALSE, FALSE, "channel", "none") >>

\* Error436NickCollision
Error436NickCollisionSpec ==
    << Entry("me",     FALSE, FALSE, FALSE, "none", "none"),
       Entry("nick",   FALSE, FALSE, FALSE, "none", "none"),
       Entry("suffix", TRUE,  FALSE, FALSE, "none", "none") >>

\* Reply315EndOfWho
Reply315EndOfWhoSpec ==
    << Entry("me",     FALSE, FALSE, FALSE, "none", "none"),
       Entry("query",  FALSE, FALSE, FALSE, "none", "none"),
       Entry("suffix", TRUE,  FALSE, FALSE, "none", "none") >>

\* the message classes; "Message" is the base class, used for every command
\* that is not registered
Classes == {"CapabilityNegotiation", "ClientQuit", "ChannelInvite",
            "Error436NickCollision", "Reply315EndOfWho", "Message"}

\* cls.PARAM_SPEC
\* a mutant of PARAM_SPEC: the generic message takes the descriptor of INVITE
PARAM_SPECGenericInvite(cls) ==
    CASE cls = "CapabilityNegotiation" -> CapabilityNegotiationSpec
      [] cls = "ClientQuit"            -> ClientQuitSpec
      [] cls = "ChannelInvite"         -> ChannelInviteSpec
      [] cls = "Error436NickCollision" -> Error436NickCollisionSpec
      [] cls = "Reply315EndOfWho"      -> Reply315EndOfWhoSpec
      [] OTHER                         -> ChannelInviteSpec

\* cls.PARAM_SPEC
PARAM_SPEC(cls) ==
    CASE cls = "CapabilityNegotiation" -> CapabilityNegotiationSpec
      [] cls = "ClientQuit"            -> ClientQuitSpec
      [] cls = "ChannelInvite"         -> ChannelInviteSpec
      [] cls = "Error436NickCollision" -> Error436NickCollisionSpec
      [] cls = "Reply315EndOfWho"      -> Reply315EndOfWhoSpec
      [] OTHER                         -> <<>>

\* cls.COMMAND
COMMAND(cls) ==
    CASE cls = "CapabilityNegotiation" -> <<"C","A","P">>
      [] cls = "ClientQuit"            -> <<"Q","U","I","T">>
      [] cls = "ChannelInvite"         -> <<"I","N","V","I","T","E">>
      [] cls = "Error436NickCollision" -> <<"4","3","6">>
      [] cls = "Reply315EndOfWho"      -> <<"3","1","5">>
      [] OTHER                         -> <<>>

\* cls.SUPPORTS_CAPTURE
SUPPORTS_CAPTURE(cls) == cls = "CapabilityNegotiation"

\* client.knowsCommand(command)
knowsCommand(command) ==
    \E cls \in Classes \ {"Message"} : COMMAND(cls) = command

\* client.getCommandClass(command)
getCommandClass(command) ==
    CHOOSE cls \in Classes \ {"Message"} : COMMAND(cls) = command

\* Client._channelTypes
channelTypes == <<"#", "&">>

(***************************************************************************)
(* Message: validation, resolution, construction, serialization           *)
(***************************************************************************)
\* the characters the nick class of the target pattern allows besides
\* letters and digits: underscore, hyphen, brackets, backslash, caret,
\* braces, bar and backquote
NickSpecial == {"_", "-", "[", "]", "\\", "^", "{", "}", "|", BQ}

\* the pattern of target: a nick (a letter or special character, then letters,
\* digits and special characters) or a single star, case-insensitive
MatchTarget(s) ==
    \/ s = <<"*">>
    \/ /\ Len(s) >= 1
       /\ IsLetter(s[1]) \/ s[1] \in NickSpecial
       /\ \A i \in 2..Len(s) : IsLetter(s[i]) \/ IsDigit(s[i]) \/ s[i] \in NickSpecial

\* the sub-commands of CAP
SubCommands == { <<"L","S">>, <<"L","I","S","T">>, <<"R","E","Q">>, <<"A","C","K">>,
                 <<"N","A","K">>, <<"E","N","D">>, <<"N","E","W">>, <<"D","E","L">> }

\* /^(?:LS|LIST|REQ|ACK|NAK|END|NEW|DEL)$/i
MatchCommand(s) == ToUpperCase(s) \in SubCommands

\* /^\d+$/
MatchVersion(s) == Len(s) >= 1 /\ \A i \in 1..Len(s) : IsDigit(s[i])

\* /^\*$/
MatchContinued(s) == s = <<"*">>

\* spec.match.test(param)
MatchTest(match, s) ==
    CASE match = "target"    -> MatchTarget(s)
      [] match = "command"   -> MatchCommand(s)
      [] match = "version"   -> MatchVersion(s)
      [] match = "continued" -> MatchContinued(s)
      [] OTHER               -> TRUE

\* a mutant of checkParam: every value suits every entry
checkParamAnything(param, spec) == TRUE

\* Message.checkParam(client, param, spec)
checkParam(param, spec) ==
    /\ spec.type = "channel" => isChannel(param, channelTypes)
    /\ spec.match # "none" => MatchTest(spec.match, param)

\* cls.minParamCount: the number of entries that are not optional
minParamCount(cls) ==
    Cardinality({ k \in DOMAIN PARAM_SPEC(cls) : ~PARAM_SPEC(cls)[k].optional })

\* a resolved parameter of a message: absent, or a value with its trailing flag
NoParam == [present |-> FALSE, value |-> <<>>, trailing |-> FALSE]

Param(value, trailing) == [present |-> TRUE, value |-> value, trailing |-> trailing]

\* the resolved parameters before the walk: no entry has a value
NoParams(cls) == [k \in DOMAIN PARAM_SPEC(cls) |-> NoParam]

\* results of the operations that can throw
Thrown(err) == [ok |-> FALSE, err |-> err]

\* the number of consecutive non-trailing tokens of params after the first i
RECURSIVE RestCount(_, _)
RestCount(params, i) ==
    IF i < Len(params) /\ ~params[i + 1].trailing
    THEN 1 + RestCount(params, i + 1)
    ELSE 0

\* a mutant of parseParamsLoop: an entry consumes the token it looked at
\* even when the token did not suit it
RECURSIVE parseParamsLoopConsuming(_, _, _, _, _, _)
parseParamsLoopConsuming(paramSpecList, params, k, i, requiredParamsLeft, parsedParams) ==
    IF k > Len(paramSpecList) THEN [ok |-> TRUE, err |-> "", parsedParams |-> parsedParams]
    ELSE
    LET paramSpec == paramSpecList[k]
        left == Len(params) - i
        n == RestCount(params, i)
        i2 == IF paramSpec.rest THEN i + n ELSE i
        param == IF paramSpec.rest
                 THEN Param(Join([j \in 1..n |-> params[i + j].value], " "), FALSE)
                 ELSE Param(params[i + 1].value, params[i + 1].trailing)
        suits == checkParam(param.value, paramSpec)
        stored == IF suits THEN [parsedParams EXCEPT ![k] = param] ELSE parsedParams
        req2 == IF suits /\ ~paramSpec.optional
                THEN requiredParamsLeft - 1 ELSE requiredParamsLeft
        i3 == IF ~paramSpec.rest THEN i2 + 1 ELSE i2
    IN  IF left <= requiredParamsLeft /\ paramSpec.optional
        THEN parseParamsLoopConsuming(paramSpecList, params, k + 1, i, requiredParamsLeft, parsedParams)
        ELSE IF left <= requiredParamsLeft /\ left # requiredParamsLeft
        THEN Thrown("not enough parameters left")
        ELSE IF i >= Len(params)
        THEN IF paramSpec.optional
             THEN [ok |-> TRUE, err |-> "", parsedParams |-> parsedParams]
             ELSE Thrown("unexpected parameter underflow")
        ELSE IF paramSpec.rest /\ n = 0
        THEN IF paramSpec.optional
             THEN parseParamsLoopConsuming(paramSpecList, params, k + 1, i, requiredParamsLeft, parsedParams)
             ELSE Thrown("no parameters left for required rest parameter")
        ELSE IF ~suits /\ ~paramSpec.optional
        THEN Thrown("did not suit requirements")
        ELSE IF paramSpec.trailing
        THEN [ok |-> TRUE, err |-> "", parsedParams |-> stored]
        ELSE parseParamsLoopConsuming(paramSpecList, params, k + 1, i3, req2, stored)

\* the loop of parseParams from entry k on: i tokens are consumed,
\* requiredParamsLeft required entries are still to be resolved
RECURSIVE parseParamsLoop(_, _, _, _, _, _)
parseParamsLoop(paramSpecList, params, k, i, requiredParamsLeft, parsedParams) ==
    IF k > Len(paramSpecList) THEN [ok |-> TRUE, err |-> "", parsedParams |-> parsedParams]
    ELSE
    LET paramSpec == paramSpecList[k]
        left == Len(params) - i
        n == RestCount(params, i)
        i2 == IF paramSpec.rest THEN i + n ELSE i
        param == IF paramSpec.rest
                 THEN Param(Join([j \in 1..n |-> params[i + j].value], " "), FALSE)
                 ELSE Param(params[i + 1].value, params[i + 1].trailing)
        suits == checkParam(param.value, paramSpec)
        stored == IF suits THEN [parsedParams EXCEPT ![k] = param] ELSE parsedParams
        req2 == IF suits /\ ~paramSpec.optional
                THEN requiredParamsLeft - 1 ELSE requiredParamsLeft
        i3 == IF suits /\ ~paramSpec.rest THEN i2 + 1 ELSE i2
    IN  IF left <= requiredParamsLeft /\ paramSpec.optional
        THEN parseParamsLoop(paramSpecList, params, k + 1, i, requiredParamsLeft, parsedParams)
        ELSE IF left <= requiredParamsLeft /\ left # requiredParamsLeft
        THEN Thrown("not enough parameters left")
        ELSE IF i >= Len(params)
        THEN IF paramSpec.optional
             THEN [ok |-> TRUE, err |-> "", parsedParams |-> parsedParams]
             ELSE Thrown("unexpected parameter underflow")
        ELSE IF paramSpec.rest /\ n = 0
        THEN IF paramSpec.optional
             THEN parseParamsLoop(paramSpecList, params, k + 1, i, requiredParamsLeft, parsedParams)
             ELSE Thrown("no parameters left for required rest parameter")
        ELSE IF ~suits /\ ~paramSpec.optional
        THEN Thrown("did not suit requirements")
        ELSE IF paramSpec.trailing
        THEN [ok |-> TRUE, err |-> "", parsedParams |-> stored]
        ELSE parseParamsLoop(paramSpecList, params, k + 1, i3, req2, stored)

\* a mutant of parseParams: the count of the tokens is not checked first
parseParamsNoCount(cls, params) ==
    parseParamsLoop(PARAM_SPEC(cls), params, 1, 0, minParamCount(cls), NoParams(cls))

\* Message.parseParams, for a message built from the tokens of a line
parseParams(cls, params) ==
    IF minParamCount(cls) > Len(params)
    THEN Thrown("expected more parameters")
    ELSE parseParamsLoop(PARAM_SPEC(cls), params, 1, 0, minParamCount(cls), NoParams(cls))

\* minParamCount of a class with the descriptor paramSpecList
minParamCountOf(paramSpecList) ==
    Cardinality({ k \in DOMAIN paramSpecList : ~paramSpecList[k].optional })

\* Message.parseParams for a message of a class with the descriptor
\* paramSpecList
parseParamsOf(paramSpecList, params) ==
    IF minParamCountOf(paramSpecList) > Len(params)
    THEN Thrown("expected more parameters")
    ELSE parseParamsLoop(paramSpecList, params, 1, 0, minParamCountOf(paramSpecList),
                         [k \in DOMAIN paramSpecList |-> NoParam])

\* a message: its class, its command and its resolved parameters, one slot
\* for each entry of the class's PARAM_SPEC
Msg(cls, command, parsedParams) ==
    [cls |-> cls, command |-> command, parsedParams |-> parsedParams]

\* the callback of create from entry k on
RECURSIVE createLoop(_, _, _, _)
createLoop(cls, params, k, parsedParams) ==
    IF k > Len(PARAM_SPEC(cls))
    THEN [ok |-> TRUE, err |-> "", msg |-> Msg(cls, COMMAND(cls), parsedParams)]
    ELSE
    LET paramSpec == PARAM_SPEC(cls)[k]
        given == params[k].def
        suits == given /\ checkParam(params[k].v, paramSpec)
        stored == IF suits
                  THEN [parsedParams EXCEPT ![k] = Param(params[k].v, paramSpec.trailing)]
                  ELSE parsedParams
    IN  IF given /\ ~suits /\ ~paramSpec.optional
        THEN Thrown("did not suit requirements")
        ELSE IF ~stored[k].present /\ ~paramSpec.optional
        THEN Thrown("not found in command")
        ELSE createLoop(cls, params, k + 1, stored)

\* Message.create(client, params): params[k] is the value given for the k-th
\* entry of the class, or Undefined when the name is not in params
create(cls, params) == createLoop(cls, params, 1, NoParams(cls))

\* a mutant of toStringParts: no value is written with a colon
toStringPartsBare(msg) ==
    LET specKeys == DOMAIN msg.parsedParams
        present == { k \in specKeys : msg.parsedParams[k].present }
        nth(j) == CHOOSE k \in present : Cardinality({ h \in present : h < k }) = j - 1
    IN  [j \in 1..Cardinality(present) |-> msg.parsedParams[nth(j)].value]

\* the parameters of a message as toString writes them
toStringParts(msg) ==
    LET specKeys == DOMAIN msg.parsedParams
        present == { k \in specKeys : msg.parsedParams[k].present }
        nth(j) == CHOOSE k \in present : Cardinality({ h \in present : h < k }) = j - 1
    IN  [j \in 1..Cardinality(present) |->
            (IF msg.parsedParams[nth(j)].trailing THEN <<":">> ELSE <<>>)
                \o msg.parsedParams[nth(j)].value]

\* Message.toString
toString(msg) == Join(<<msg.command>> \o toStringParts(msg), " ")

\* message.params.<name>: the value of the named parameter, or undefined
ParamOf(msg, name) ==
    LET spec == PARAM_SPEC(msg.cls)
        ks == { k \in DOMAIN spec : spec[k].name = name }
    IN  IF ks = {} THEN Undefined
        ELSE LET k == CHOOSE k \in ks : TRUE
             IN  IF msg.parsedParams[k].present
                 THEN Defined(msg.parsedParams[k].value)
                 ELSE Undefined

(***************************************************************************)
(* Message.parse: the tokenizer of a line                                  *)
(***************************************************************************)
\* Message.parsePrefix
parsePrefix(raw) ==
    LET parts == Split2(raw, "!")
        nick == parts[1]
        hostName == IF Len(parts) >= 2 THEN parts[2] ELSE <<>>
        uh == Split2(hostName, "@")
        user == uh[1]
        host == IF Len(uh) >= 2 THEN uh[2] ELSE <<>>
    IN  IF Len(hostName) > 0
        THEN IF Len(host) > 0
             THEN [raw |-> raw, nick |-> nick, user |-> Defined(user), host |-> Defined(host)]
             ELSE [raw |-> raw, nick |-> nick, user |-> Undefined, host |-> Defined(user)]
        ELSE [raw |-> raw, nick |-> nick, user |-> Undefined, host |-> Undefined]

\* tagEscapeMap
tagEscapeMap(c) ==
    CASE c = "\\" -> "\\"
      [] c = ":"  -> ";"
      [] c = "n"  -> "\n"
      [] c = "r"  -> "\r"
      [] c = "s"  -> " "

\* tagValue.replace(/\\([\\:nrs])/g, ...): one pass from the left; a
\* backslash that no escaped character follows is left as it is
RECURSIVE unescapeTag(_)
unescapeTag(s) ==
    IF Len(s) = 0 THEN <<>>
    ELSE IF Len(s) >= 2 /\ s[1] = "\\" /\ s[2] \in {"\\", ":", "n", "r", "s"}
    THEN <<tagEscapeMap(s[2])>> \o unescapeTag(SubSeq(s, 3, Len(s)))
    ELSE <<s[1]>> \o unescapeTag(Tail(s))

\* Map.prototype.set on a map kept as a sequence of entries
MapSet(tags, name, value) ==
    IF \E i \in DOMAIN tags : tags[i].name = name
    THEN [i \in DOMAIN tags |->
            IF tags[i].name = name THEN [name |-> name, value |-> value] ELSE tags[i]]
    ELSE Append(tags, [name |-> name, value |-> value])

\* the loop of parseTags; a tag without "=" has an undefined value, and
\* calling replace on it throws a TypeError
RECURSIVE parseTagsLoop(_, _)
parseTagsLoop(tagStrings, tags) ==
    IF Len(tagStrings) = 0 THEN [ok |-> TRUE, err |-> "", tags |-> tags]
    ELSE LET kv == Split2(Head(tagStrings), "=")
         IN  IF Len(kv) < 2 THEN Thrown("TypeError")
             ELSE parseTagsLoop(Tail(tagStrings), MapSet(tags, kv[1], unescapeTag(kv[2])))

\* Message.parseTags
parseTags(raw) == parseTagsLoop(Split(raw, ";"), <<>>)

NoPrefix == [set |-> FALSE, raw |-> <<>>, nick |-> <<>>, user |-> Undefined, host |-> Undefined]

\* the while loop of parse over the tokens still in splitLine; command is the
\* empty string as long as none was found (the empty string is falsy)
RECURSIVE parseLoop(_, _, _, _, _, _)
parseLoop(splitLine, command, params, tags, hasTags, prefix) ==
    IF Len(splitLine) = 0
    THEN [ok |-> TRUE, err |-> "", command |-> command, params |-> params,
          tags |-> tags, hasTags |-> hasTags, prefix |-> prefix]
    ELSE
    LET token == splitLine[1]
        first == IF Len(token) > 0 THEN token[1] ELSE ""
        rest == Tail(splitLine)
        noCommand == Len(command) = 0
    IN  IF first = "@" /\ ~hasTags /\ noCommand
        THEN LET t == parseTags(Substr1(token))
             IN  IF ~t.ok THEN Thrown(t.err)
                 ELSE parseLoop(rest, command, params, t.tags, TRUE, prefix)
        ELSE IF first = ":"
        THEN IF ~prefix.set /\ noCommand
             THEN parseLoop(rest, command, params, tags, hasTags,
                            [set |-> TRUE] @@ parsePrefix(Substr1(token)))
             ELSE [ok |-> TRUE, err |-> "", command |-> command,
                   params |-> Append(params, [value |-> Substr1(Join(splitLine, " ")),
                                              trailing |-> TRUE]),
                   tags |-> tags, hasTags |-> hasTags, prefix |-> prefix]
        ELSE IF noCommand
        THEN parseLoop(rest, ToUpperCase(token), params, tags, hasTags, prefix)
        ELSE parseLoop(rest, command, Append(params, [value |-> token, trailing |-> FALSE]),
                       tags, hasTags, prefix)

\* the tokens of a line: Message.parse up to the choice of the message class
tokenize(line) == parseLoop(Split(line, " "), <<>>, <<>>, <<>>, FALSE, NoPrefix)

\* the class parse chooses for a command
ClassOf(command) == IF knowsCommand(command) THEN getCommandClass(command) ELSE "Message"

\* new messageClass(client, command, params, tags, prefix): the constructor
\* resolves the parameters, p is what parseParams made of them
construct(messageClass, command, p) ==
    IF ~p.ok THEN Thrown(p.err)
    ELSE [ok |-> TRUE, err |-> "", msg |-> Msg(messageClass, command, p.parsedParams)]

\* the end of Message.parse, t is what the tokenizer made of the line
parseTokens(t, messageClass) ==
    IF ~t.ok THEN Thrown(t.err)
    ELSE IF Len(t.command) = 0 THEN Thrown("line without command received")
    ELSE construct(messageClass, t.command, parseParams(messageClass, t.params))

\* the class for the command of a tokenized line
classFor(t) == parseTokens(t, ClassOf(t.command))

\* Message.parse(line, client)
parse(line) == classFor(tokenize(line))

(***************************************************************************)
(* The reply predicates of the message types                               *)
(***************************************************************************)
ACK == <<"A","C","K">>
NAK == <<"N","A","K">>
LS == <<"L","S">>
LIST == <<"L","I","S","T">>
REQ == <<"R","E","Q">>

\* the outcomes of a predicate that can throw
Yes == "true"
No == "false"
Throws == "TypeError"

\* this.isResponseTo(originalMessage) of the class of this: "true", "false",
\* or "TypeError" when trim is called on an undefined capability list
isResponseTo(this, originalMessage) ==
    CASE this.cls = "CapabilityNegotiation" ->
            IF originalMessage.cls # "CapabilityNegotiation" THEN No
            ELSE LET cmd == ParamOf(this, "command")
                     caps == ParamOf(this, "capabilities")
                 IN  IF cmd.v \in {ACK, NAK}
                     THEN IF ParamOf(originalMessage, "command") # Defined(REQ) THEN No
                          ELSE IF ~caps.def THEN Throws
                          ELSE IF ParamOf(originalMessage, "capabilities") = Defined(Trim(caps.v))
                          THEN Yes ELSE No
                     ELSE IF cmd.v \in {LS, LIST}
                     THEN IF ParamOf(originalMessage, "command") = cmd THEN Yes ELSE No
                     ELSE No
      [] this.cls = "Error436NickCollision" ->
            IF originalMessage.command = <<"N","I","C","K">> THEN Yes ELSE No
      [] this.cls = "Reply315EndOfWho" ->
            IF originalMessage.cls = "WhoQuery" THEN Yes ELSE No
      [] OTHER -> No

\* a mutant of endsResponseTo: a continued LS or LIST reply ends the exchange too
endsResponseToAlways(this, originalMessage) ==
    this.cls \in {"CapabilityNegotiation", "Error436NickCollision", "Reply315EndOfWho"}

\* this.endsResponseTo(originalMessage) of the class of this
endsResponseTo(this, originalMessage) ==
    CASE this.cls = "CapabilityNegotiation" ->
            IF originalMessage.cls # "CapabilityNegotiation" THEN FALSE
            ELSE IF ParamOf(this, "command").v \in {LS, LIST}
            THEN ~ParamOf(this, "continued").def
            ELSE TRUE
      [] this.cls \in {"Error436NickCollision", "Reply315EndOfWho"} -> TRUE
      [] OTHER -> FALSE

\* a mutant of _acceptsInReplyCollection: the two messages are swapped
acceptsInReplyCollectionSwapped(originalMessage, message) ==
    isResponseTo(originalMessage, message)

\* originalMessage._acceptsInReplyCollection(message)
acceptsInReplyCollection(originalMessage, message) ==
    isResponseTo(message, originalMessage)

(***************************************************************************)
(* The client: reply captures, the receive path, the event handlers       *)
(***************************************************************************)
\* the most captures requested in a run
MaxCaptures == 2

\* the most lines received in a run
MaxRecv == 2

\* the lines the server sends in this model
InLines ==
    << <<"C","A","P"," ","*"," ","L","S"," ","*"," ",":","c","a","p","-","a"," ","c","a","p","-","b">>,
       <<"C","A","P"," ","*"," ","L","S"," ",":","c","a","p","-","c">>,
       <<"C","A","P"," ","*"," ","A","C","K"," ",":","m","u","l","t","i","-","p","r","e","f","i","x"," ">>,
       <<"C","A","P"," ","*"," ","N","A","K">>,
       <<"C","A","P"," ","*"," ","A","C","K"," ",":","s","a","s","l">>,
       <<"I","N","V","I","T","E"," ","m","e">>,
       <<"Q","U","I","T"," ",":","b","y","e">> >>

\* Message.parse on each of them
ParsedLines == [k \in DOMAIN InLines |-> parse(InLines[k])]

MultiPrefix == <<"m","u","l","t","i","-","p","r","e","f","i","x">>

\* the messages the application builds with createCommand and sends:
\* CAP LS, CAP REQ :multi-prefix and QUIT :bye
OutCommands ==
    << [cls |-> "CapabilityNegotiation",
        params |-> <<Undefined, Defined(LS), Undefined, Undefined, Undefined>>],
       [cls |-> "CapabilityNegotiation",
        params |-> <<Undefined, Defined(REQ), Undefined, Undefined, Defined(MultiPrefix)>>],
       [cls |-> "ClientQuit",
        params |-> <<Defined(<<"b","y","e">>)>>] >>

\* client.createCommand(type, params) for the o-th of them
CreatedCommands ==
    [o \in DOMAIN OutCommands |-> create(OutCommands[o].cls, OutCommands[o].params).msg]

createCommand(o) == CreatedCommands[o]

\* the types the application registers handlers for
HandlerTypes == {"CapabilityNegotiation"}

\* the names it gives its handlers
HandlerNames == {"h1"}

\* what a handler does when it is called: it returns, or it throws
Handlers == {"returns", "throws"}

\* the handler names of this model that are array indices ("1", "2"), in
\* ascending numeric order: Object.values lists the properties with such
\* names first, in that order, whenever they were set
IntegerKeys == <<"1", "2">>

\* Object.values(handlers): the handlers whose names are array indices in
\* ascending order, then the others in the order their names were first set
ObjectValues(handlers) ==
    LET IsIndex(e) == e.name \in Range(IntegerKeys)
        IsNoIndex(e) == e.name \notin Range(IntegerKeys)
        Set(n) == \E i \in DOMAIN handlers : handlers[i].name = n
        At(n) == handlers[CHOOSE i \in DOMAIN handlers : handlers[i].name = n]
        indexNames == SelectSeq(IntegerKeys, Set)
    IN  [i \in DOMAIN indexNames |-> At(indexNames[i])] \o SelectSeq(handlers, IsNoIndex)

VARIABLES
    collectors,  \* the live captures, in registration order: id and accumulated messages
    futures,     \* every capture requested so far: its message, its promise
    sent,        \* the lines handed to the connection, in order
    received,    \* the lines received that parsed, in arrival order (indices of InLines)
    events,      \* Client._events: for each type the handler list, an object
                 \* kept as its properties (name and handler) in the order they were set
    last,        \* what the most recent operation did
    codec,       \* the most recent call of parse, create or toString on its own
    connection   \* the DirectConnection: its fields and the sockets it opened

vars == <<collectors, futures, sent, received, events, last, codec, connection>>

\* the message that arrived as the j-th
ReceivedMsg(j) == ParsedLines[received[j]].msg

NoOp == [op |-> "none", arg |-> 0, ok |-> TRUE, err |-> "",
         outcome |-> <<>>, calls |-> <<>>]

NoCodec == [op |-> "none"]

\* a DirectConnection after construction: no socket (0 stands for undefined)
NoConnection ==
    [_socket |-> 0, _connected |-> FALSE, _connecting |-> FALSE,
     _initialConnection |-> TRUE, _manualDisconnect |-> FALSE,
     sockets |-> <<>>, op |-> "none"]

Init ==
    /\ collectors = <<>>
    /\ futures = <<>>
    /\ sent = <<>>
    /\ received = <<>>
    /\ events = <<>>
    /\ last = NoOp
    /\ codec = NoCodec
    /\ connection = NoConnection

\* Client.on(type, handler, handlerName) with a name given: the handler list
\* of the type is created when the type has none, and the handler is stored
\* under the name; a name the list has keeps its place and gets the handler
On(type, handler, handlerName) ==
    /\ events' = IF type \in DOMAIN events
                 THEN [events EXCEPT ![type] = MapSet(@, handlerName, handler)]
                 ELSE events @@ (type :> <<[name |-> handlerName, value |-> handler]>>)
    /\ last' = NoOp
    /\ UNCHANGED <<collectors, futures, sent, received, codec, connection>>

\* client.collect(message): a new live capture with a pending promise; it
\* is registered after openedAt messages were received and sentBefore lines
\* were handed to the connection
collect(message) ==
    [collectors |-> Append(collectors, [id |-> Len(futures) + 1, messages |-> <<>>]),
     futures |-> Append(futures, [originalMessage |-> message, state |-> "pending",
                                  value |-> <<>>, reason |-> "",
                                  openedAt |-> Len(received), closedAt |-> 0,
                                  sentBefore |-> Len(sent)])]

\* a mutant of sendAndCaptureReply: the line is sent first and the capture
\* registered after it
sendAndCaptureReplySendsFirst(message) ==
    IF ~SUPPORTS_CAPTURE(message.cls)
    THEN [ok |-> FALSE, err |-> "does not support reply capture",
          collectors |-> collectors, futures |-> futures, sent |-> sent]
    ELSE [ok |-> TRUE, err |-> "",
          collectors |-> collect(message).collectors,
          futures |-> [collect(message).futures EXCEPT
                          ![Len(futures) + 1].sentBefore = Len(sent) + 1],
          sent |-> Append(sent, toString(message))]

\* a mutant of sendAndCaptureReply: SUPPORTS_CAPTURE is not looked at
sendAndCaptureReplyUnchecked(message) ==
    [ok |-> TRUE, err |-> "",
     collectors |-> collect(message).collectors,
     futures |-> collect(message).futures,
     sent |-> Append(sent, toString(message))]

\* message.sendAndCaptureReply(): the capture is registered, then the line sent
sendAndCaptureReply(message) ==
    IF ~SUPPORTS_CAPTURE(message.cls)
    THEN [ok |-> FALSE, err |-> "does not support reply capture",
          collectors |-> collectors, futures |-> futures, sent |-> sent]
    ELSE [ok |-> TRUE, err |-> "",
          collectors |-> collect(message).collectors,
          futures |-> collect(message).futures,
          sent |-> Append(sent, toString(message))]

\* the application calls sendAndCaptureReply on the o-th of its commands
SendAndCaptureReply(o) ==
    /\ Len(futures) < MaxCaptures
    /\ \E r \in {sendAndCaptureReply(createCommand(o))} :
           /\ collectors' = r.collectors
           /\ futures' = r.futures
           /\ sent' = r.sent
           /\ last' = [NoOp EXCEPT !.op = "capture", !.arg = o, !.ok = r.ok, !.err = r.err]
    /\ UNCHANGED <<received, events, codec, connection>>

\* a mutant of collectOne: a capture that completes stays in the live set
collectOneStaysLive(c, originalMessage, message, pos) ==
    LET accepts == acceptsInReplyCollection(originalMessage, message)
        messages == Append(c.messages, pos)
    IN  IF accepts = Yes
        THEN [accepts |-> accepts, live |-> TRUE, messages |-> messages,
              state |-> IF endsResponseTo(message, originalMessage)
                        THEN "fulfilled" ELSE "pending"]
        ELSE [accepts |-> accepts, live |-> accepts = No, messages |-> c.messages,
              state |-> IF accepts = No THEN "pending" ELSE "rejected"]

\* what becomes of a live capture c offered the message that arrived as the
\* pos-th, given what the match test said and whether the message ends the
\* exchange: a message it accepts is appended to its messages and ends it
\* when endsResponseTo holds; an error of the match fails the capture
collectOutcome(c, accepts, ends, pos) ==
    IF accepts = Throws
    THEN [accepts |-> accepts, live |-> FALSE, messages |-> c.messages,
          state |-> "rejected"]
    ELSE IF accepts = No
    THEN [accepts |-> accepts, live |-> TRUE, messages |-> c.messages,
          state |-> "pending"]
    ELSE IF ends
    THEN [accepts |-> accepts, live |-> FALSE, messages |-> Append(c.messages, pos),
          state |-> "fulfilled"]
    ELSE [accepts |-> accepts, live |-> TRUE, messages |-> Append(c.messages, pos),
          state |-> "pending"]

\* one live capture c is offered the message
collectOne(c, originalMessage, message, pos) ==
    collectOutcome(c, acceptsInReplyCollection(originalMessage, message),
                   endsResponseTo(message, originalMessage), pos)

\* the captures and the promises after every capture of cs was offered the
\* message: offers[j] is the outcome for cs[j]; the captures that stay live
\* keep their order, the promises of the others are settled
settleAll(cs, futs, pos, offers) ==
    LET at(i) == CHOOSE j \in DOMAIN cs : cs[j].id = i
        offered == { cs[j].id : j \in DOMAIN cs }
        liveAt == { j \in DOMAIN cs : offers[j].live }
        nth(n) == CHOOSE j \in liveAt : Cardinality({ h \in liveAt : h < j }) = n - 1
        settle(i, r) ==
            IF r.state = "pending" THEN futs[i]
            ELSE [futs[i] EXCEPT !.state = r.state,
                     !.value = IF r.state = "fulfilled" THEN r.messages ELSE <<>>,
                     !.reason = IF r.state = "rejected" THEN r.accepts ELSE "",
                     !.closedAt = pos]
    IN  [collectors |-> [n \in 1..Cardinality(liveAt) |->
                            [id |-> cs[nth(n)].id, messages |-> offers[nth(n)].messages]],
         futures |-> [i \in DOMAIN futs |->
                         IF i \in offered THEN settle(i, offers[at(i)]) ELSE futs[i]],
         outcome |-> [i \in offered |-> offers[at(i)].accepts]]

\* every live capture is offered the message that arrived as the pos-th,
\* each on its own
collectAll(cs, futs, message, pos) ==
    settleAll(cs, futs, pos,
              [j \in DOMAIN cs |->
                  collectOne(cs[j], futs[cs[j].id].originalMessage, message, pos)])

\* the handler list of a type as handleEvents walks it
handlersOf(type) ==
    IF type \in DOMAIN events THEN ObjectValues(events[type]) ELSE <<>>

\* the names of the handlers the for loop of handleEvents calls: a handler
\* that throws ends the loop
invoked(handlers) ==
    LET throwing == { i \in DOMAIN handlers : handlers[i].value = "throws" }
        n == IF throwing = {} THEN Len(handlers)
             ELSE CHOOSE i \in throwing : \A j \in throwing : i <= j
    IN  [i \in 1..n |-> handlers[i].name]

\* a mutant of handleEvents: a message that a live capture accepts is not
\* dispatched to the handlers
handleEventsUnlessCaptured(message) ==
    IF \E j \in DOMAIN collectors :
          acceptsInReplyCollection(futures[collectors[j].id].originalMessage, message) = Yes
    THEN <<>>
    ELSE invoked(handlersOf(message.cls))

\* Client.handleEvents(message): the names of the handlers called, in the
\* order of the calls
handleEvents(message) == invoked(handlersOf(message.cls))

\* whether handleEvents(message) ends with a handler's exception
handleEventsThrows(message) ==
    \E i \in DOMAIN handlersOf(message.cls) : handlersOf(message.cls)[i].value = "throws"

\* a mutant of Receive: the line counts as received before it is parsed
ReceiveKeepsBadLine(k) ==
    /\ Len(received) < MaxRecv
    /\ received' = Append(received, k)
    /\ last' = [NoOp EXCEPT !.op = "recv", !.arg = k, !.ok = ParsedLines[k].ok]
    /\ UNCHANGED <<collectors, futures, sent, events, codec, connection>>

\* the lineReceived listener of the client, for the k-th line of InLines:
\* r is the line parsed, c the captures after they were offered the message
Receive(k) ==
    /\ Len(received) < MaxRecv
    /\ \E r \in {ParsedLines[k]} :
          IF ~r.ok
          THEN /\ last' = [NoOp EXCEPT !.op = "recv", !.arg = k, !.ok = FALSE, !.err = r.err]
               /\ UNCHANGED <<collectors, futures, received>>
          ELSE /\ received' = Append(received, k)
               /\ \E c \in {collectAll(collectors, futures, r.msg, Len(received) + 1)} :
                     /\ collectors' = c.collectors
                     /\ futures' = c.futures
                     /\ last' = [NoOp EXCEPT !.op = "recv", !.arg = k,
                                             !.ok = ~handleEventsThrows(r.msg),
                                             !.err = IF handleEventsThrows(r.msg)
                                                     THEN "handler threw" ELSE "",
                                             !.outcome = c.outcome,
                                             !.calls = handleEvents(r.msg)]
    /\ UNCHANGED <<sent, events, codec, connection>>

\* what the client does when the connection emits disconnect: the
\* constructor registers listeners for connected and lineReceived alone, so
\* the captures are left as they are
onDisconnect == [collectors |-> collectors, futures |-> futures]

\* the transport signals the disconnect: DirectConnection emits disconnect
\* from its error listener, or from its close listener after a close without
\* error; a later connection delivers lines again
Disconnect ==
    /\ collectors' = onDisconnect.collectors
    /\ futures' = onDisconnect.futures
    /\ last' = [NoOp EXCEPT !.op = "disconnect"]
    /\ UNCHANGED <<sent, received, events, codec, connection>>

Next ==
    \/ \E t \in HandlerTypes, h \in Handlers, n \in HandlerNames : On(t, h, n)
    \/ \E o \in DOMAIN OutCommands : SendAndCaptureReply(o)
    \/ \E k \in DOMAIN InLines : Receive(k)
    \/ Disconnect

Spec == Init /\ [][Next]_vars

\* ---- the dispatch of received messages to the handlers of the client ----

\* the message types handlers are registered for
DispatchTypes == {"CapabilityNegotiation", "ClientQuit"}

\* the names handlers are registered under: a name that is no array index,
\* and two that are
DispatchNames == {"h1", "1", "2"}

\* the lines that arrive: a CAP line, a line that fails to parse, a QUIT line
DispatchLines == {1, 6, 7}

NextDispatch ==
    \/ \E t \in DispatchTypes, h \in Handlers, n \in DispatchNames : On(t, h, n)
    \/ \E k \in DispatchLines : Receive(k)

SpecDispatch == Init /\ [][NextDispatch]_vars

(***************************************************************************)
(* The codec on its own: create, toString and parse on bounded inputs      *)
(***************************************************************************)
\* the most parameter tokens before the trailing one in a parsed line
MaxTokens == 3

\* the values the application gives to create
CreateValues ==
    { <<"*">>, <<"L","S">>, <<"3","0","2">>, <<"a"," ","b">>, <<"#","c">> }

\* the parameter tokens of the lines parsed
Tokens == { <<"*">>, <<"L","S">>, <<"3","0","2">>, <<"#","c">>, <<"x">> }

\* the trailing parameters of the lines parsed
Trailings == { <<"a"," ","b">>, <<"*">>, <<"3","0","2">> }

\* the commands of the lines parsed: those of the classes, and one that is
\* not registered
LineCommands == { COMMAND(cls) : cls \in Classes \ {"Message"} } \cup { <<"F","O","O">> }

\* the application calls create(cls, params); the calls of a run of the
\* codec are independent, so each run makes one
Create(cls, params) ==
    /\ codec.op = "none"
    /\ codec' = [op |-> "create", cls |-> cls, params |-> params,
                 res |-> create(cls, params)]
    /\ UNCHANGED <<collectors, futures, sent, received, events, last, connection>>

\* the message just created is written with toString and the line parsed
RoundTrip ==
    /\ codec.op = "create"
    /\ codec.res.ok
    /\ codec' = [op |-> "roundtrip", cls |-> codec.cls, created |-> codec.res.msg,
                 line |-> toString(codec.res.msg),
                 res |-> parse(toString(codec.res.msg))]
    /\ UNCHANGED <<collectors, futures, sent, received, events, last, connection>>

\* a line of a command, parameter tokens and perhaps a trailing parameter is parsed
Parse(command, tokens, trailing) ==
    LET line == Join(<<command>> \o tokens
                     \o (IF trailing.def THEN <<<<":">> \o trailing.v>> ELSE <<>>), " ")
    IN  /\ codec.op = "none"
        /\ codec' = [op |-> "parse", cls |-> ClassOf(command), command |-> command,
                     tokens |-> tokens, trailing |-> trailing, line |-> line,
                     res |-> parse(line)]
        /\ UNCHANGED <<collectors, futures, sent, received, events, last, connection>>

\* the message just parsed is written with toString
WriteParsed ==
    /\ codec.op = "parse"
    /\ codec.res.ok
    /\ codec' = [op |-> "tostring", cls |-> codec.cls, msg |-> codec.res.msg,
                 tokens |-> codec.tokens, trailing |-> codec.trailing,
                 line |-> toString(codec.res.msg)]
    /\ UNCHANGED <<collectors, futures, sent, received, events, last, connection>>

\* a run of the codec makes one call of create or parse; a message that was
\* created can then be written and parsed back, one that was parsed written
NextCodec ==
    \/ /\ codec.op = "none"
       /\ \E cls \in Classes \ {"Message"} :
            \E params \in [DOMAIN PARAM_SPEC(cls) -> {Undefined} \cup { Defined(v) : v \in CreateValues }] :
               Create(cls, params)
    \/ RoundTrip
    \/ /\ codec.op = "none"
       /\ \E command \in LineCommands :
            \E n \in 0..MaxTokens :
               \E tokens \in [1..n -> Tokens] :
                  \E trailing \in {Undefined} \cup { Defined(v) : v \in Trailings } :
                     Parse(command, tokens, trailing)
    \/ WriteParsed

SpecCodec == Init /\ [][NextCodec]_vars

\* ---- the functions on text, each called once on a bounded input ----

\* the longest channel name tested
MaxChannelLen == 3

\* the characters of the channel names tested
ChannelChars == {"#", "&", "f", " ", BELL, BS, NUL, ",", "\r", "\n"}

\* the channel names tested
ChannelNames == UNION { [1..n -> ChannelChars] : n \in 0..MaxChannelLen }

\* the values of validTypes tested
ValidTypes == { <<"#", "&">>, <<"#">> }

\* isChannel(str, validTypes) is called
IsChannel(str, validTypes) ==
    /\ codec' = [op |-> "isChannel", str |-> str, validTypes |-> validTypes,
                 res |-> isChannel(str, validTypes)]
    /\ UNCHANGED <<collectors, futures, sent, received, events, last, connection>>

\* the longest prefix tested
MaxPrefixLen == 5

\* the characters of the prefixes tested
PrefixChars == {"n", "u", "!", "@"}

\* the prefixes tested
Prefixes == UNION { [1..n -> PrefixChars] : n \in 0..MaxPrefixLen }

\* parsePrefix(raw) is called
ParsePrefix(raw) ==
    /\ codec' = [op |-> "parsePrefix", raw |-> raw, res |-> parsePrefix(raw)]
    /\ UNCHANGED <<collectors, futures, sent, received, events, last, connection>>

\* the longest tag value tested
MaxTagLen == 4

\* the characters of the tag values tested: the backslash, the characters
\* that have a meaning after it, and one that has none
TagChars == {"\\", ":", "n", "r", "s", "x"}

\* the tag values tested, as they are written on the line
TagValues == UNION { [1..n -> TagChars] : n \in 0..MaxTagLen }

\* parseTags is called on the tag block k=tagValue
ParseTags(tagValue) ==
    /\ codec' = [op |-> "parseTags", tagValue |-> tagValue,
                 res |-> parseTags(<<"k", "=">> \o tagValue)]
    /\ UNCHANGED <<collectors, futures, sent, received, events, last, connection>>

\* the most tokens of a line tokenized
MaxLineTokens == 4

\* the tokens of the lines tokenized: a tag block of a tag with a value, one
\* of a tag without, a token with a colon, two plain tokens, and the empty
\* token two spaces in a row make
LineTokens ==
    { <<"@", "a", "=", "b">>, <<"@", "c">>, <<":", "p">>, <<"c", "m", "d">>, <<"x">>, <<>> }

\* the lines tokenized
Lines == { Join(tokens, " ") : tokens \in UNION { [1..n -> LineTokens] : n \in 1..MaxLineTokens } }

\* Message.parse is called on a line, up to the choice of the message class
Tokenize(line) ==
    /\ codec' = [op |-> "tokenize", line |-> line, res |-> tokenize(line)]
    /\ UNCHANGED <<collectors, futures, sent, received, events, last, connection>>

\* the most entries of a descriptor resolved
MaxEntries == 2

\* the most tokens before the trailing parameter in the streams resolved
MaxMiddle == 2

\* the names of the entries of the descriptors resolved, in their order
EntryNames == <<"first", "second", "third">>

\* the entries of the descriptors resolved: every choice of the flags,
\* without a pattern or with the pattern of digits
EntryKinds ==
    [trailing : BOOLEAN, rest : BOOLEAN, optional : BOOLEAN, match : {"none", "version"}]

\* the invariants of a descriptor: an entry with trailing is the last one,
\* and at most one entry has rest
ValidDescriptor(paramSpecList) ==
    /\ \A k \in DOMAIN paramSpecList : paramSpecList[k].trailing => k = Len(paramSpecList)
    /\ Cardinality({ k \in DOMAIN paramSpecList : paramSpecList[k].rest }) <= 1

\* the descriptor with the entries of the kinds given
DescriptorOf(kinds) ==
    [k \in DOMAIN kinds |-> Entry(EntryNames[k], kinds[k].trailing, kinds[k].rest,
                                  kinds[k].optional, "none", kinds[k].match)]

\* the descriptors resolved: those that satisfy the invariants
Descriptors ==
    { paramSpecList \in
        { DescriptorOf(kinds) : kinds \in UNION { [1..n -> EntryKinds] : n \in 0..MaxEntries } } :
        ValidDescriptor(paramSpecList) }

\* the token streams resolved: tokens that are not trailing, then perhaps
\* one that is
Streams ==
    { [i \in 1..Len(middle) |-> [value |-> middle[i], trailing |-> FALSE]]
        \o (IF trailing.def THEN << [value |-> trailing.v, trailing |-> TRUE] >> ELSE <<>>) :
      middle \in UNION { [1..n -> { <<"x">>, <<"1">> }] : n \in 0..MaxMiddle },
      trailing \in { Undefined, Defined(<<"x">>), Defined(<<"1">>) } }

\* a message of a class with the descriptor paramSpecList is constructed
\* from the tokens params
ParseParams(paramSpecList, params) ==
    /\ codec' = [op |-> "parseParams", paramSpecList |-> paramSpecList, params |-> params,
                 res |-> parseParamsOf(paramSpecList, params)]
    /\ UNCHANGED <<collectors, futures, sent, received, events, last, connection>>

NextText ==
    \/ /\ codec.op = "none"
       /\ \E str \in ChannelNames, validTypes \in ValidTypes : IsChannel(str, validTypes)
    \/ /\ codec.op = "none"
       /\ \E raw \in Prefixes : ParsePrefix(raw)
    \/ /\ codec.op = "none"
       /\ \E tagValue \in TagValues : ParseTags(tagValue)
    \/ /\ codec.op = "none"
       /\ \E line \in Lines : Tokenize(line)
    \/ /\ codec.op = "none"
       /\ \E paramSpecList \in Descriptors, params \in Streams :
             ParseParams(paramSpecList, params)

SpecText == Init /\ [][NextText]_vars

\* ---- Connection/DirectConnection.ts ----

\* the most sockets a connection opens
MaxSockets == 2

\* the most lines written to one socket
MaxWrites == 1

\* a socket just created: the connection attempt is under way; promise is
\* the promise connect() returned for it, disconnects the 'disconnect'
\* events its listeners emitted, written the calls of write on it
NewSocket ==
    [state |-> "opening", destroyed |-> FALSE, promise |-> "pending",
     disconnects |-> 0, written |-> 0]

\* connect(): the socket is created and the listeners are attached
connect(c) ==
    [c EXCEPT !._connecting = TRUE,
              !.sockets = Append(@, NewSocket),
              !._socket = Len(c.sockets) + 1,
              !.op = "connect"]

\* connectionListener, for the socket s
connectionListener(c, s) ==
    [c EXCEPT !._connecting = FALSE,
              !._connected = TRUE,
              !._initialConnection = FALSE,
              !.sockets[s].state = "open",
              !.sockets[s].promise = "resolved",
              !.op = "open"]

\* connectionErrorListener, for the socket s
connectionErrorListener(c, s) ==
    [c EXCEPT !._connected = FALSE,
              !.sockets[s].state = "failed",
              !.sockets[s].disconnects = @ + 1,
              !.sockets[s].promise =
                  IF c._initialConnection /\ @ = "pending" THEN "rejected" ELSE @,
              !.op = "error"]

\* a mutant of the close listener: 'disconnect' is emitted whatever hadError is
closeListenerAlwaysEmits(c, s, hadError) ==
    [c EXCEPT !._socket = 0,
              !._connected = FALSE,
              !._connecting = FALSE,
              !.sockets[s].state = "closed",
              !.sockets[s].disconnects = @ + 1,
              !.op = "close"]

\* the listener of 'close', for the socket s
closeListener(c, s, hadError) ==
    [c EXCEPT !._socket = 0,
              !._connected = FALSE,
              !._connecting = FALSE,
              !.sockets[s].state = "closed",
              !.sockets[s].disconnects = IF ~hadError THEN @ + 1 ELSE @,
              !.op = "close"]

\* disconnect(): the socket, if there is one, is destroyed
disconnect(c) ==
    IF c._socket # 0
    THEN [c EXCEPT !._manualDisconnect = TRUE,
                   !.sockets[c._socket].destroyed = TRUE,
                   !.op = "disconnect"]
    ELSE [c EXCEPT !.op = "disconnect"]

\* sendRaw(line): the line is written to the socket, if there is one
sendRaw(c) ==
    IF c._socket # 0
    THEN [c EXCEPT !.sockets[c._socket].written = @ + 1, !.op = "sendRaw"]
    ELSE [c EXCEPT !.op = "sendRaw"]

\* the application, or the reconnect of the base class, calls connect()
Connect ==
    /\ Len(connection.sockets) < MaxSockets
    /\ connection' = connect(connection)
    /\ UNCHANGED <<collectors, futures, sent, received, events, last, codec>>

\* the socket s emits 'connect': the attempt succeeded
SocketConnect(s) ==
    /\ connection.sockets[s].state = "opening"
    /\ ~connection.sockets[s].destroyed
    /\ connection' = connectionListener(connection, s)
    /\ UNCHANGED <<collectors, futures, sent, received, events, last, codec>>

\* the socket s emits 'error': the attempt or the transmission failed; the
\* socket emits 'close' with hadError set next
SocketError(s) ==
    /\ connection.sockets[s].state \in {"opening", "open"}
    /\ ~connection.sockets[s].destroyed
    /\ connection' = connectionErrorListener(connection, s)
    /\ UNCHANGED <<collectors, futures, sent, received, events, last, codec>>

\* the socket s emits 'close': after an error with hadError set, otherwise
\* (the peer ended the connection, or the socket was destroyed) without
SocketClose(s) ==
    /\ \/ connection.sockets[s].state \in {"open", "failed"}
       \/ connection.sockets[s].state = "opening" /\ connection.sockets[s].destroyed
    /\ connection' = closeListener(connection, s, connection.sockets[s].state = "failed")
    /\ UNCHANGED <<collectors, futures, sent, received, events, last, codec>>

\* the application calls disconnect()
ManualDisconnect ==
    /\ connection' = disconnect(connection)
    /\ UNCHANGED <<collectors, futures, sent, received, events, last, codec>>

\* a line is sent with sendRaw
SendRaw ==
    /\ connection._socket # 0 => connection.sockets[connection._socket].written < MaxWrites
    /\ connection' = sendRaw(connection)
    /\ UNCHANGED <<collectors, futures, sent, received, events, last, codec>>

NextConnection ==
    \/ Connect
    \/ \E s \in DOMAIN connection.sockets : SocketConnect(s)
    \/ \E s \in DOMAIN connection.sockets : SocketError(s)
    \/ \E s \in DOMAIN connection.sockets : SocketClose(s)
    \/ ManualDisconnect
    \/ SendRaw

SpecConnection == Init /\ [][NextConnection]_vars

(***************************************************************************)
(* Properties                                                              *)
(***************************************************************************)
\* whether capture i is in the live set
IsLive(i) == \E j \in DOMAIN collectors : collectors[j].id = i

\* the messages capture i has accumulated: those of its collector while it
\* is live, those its promise was fulfilled with afterwards
Accumulated(i) ==
    IF IsLive(i)
    THEN collectors[CHOOSE j \in DOMAIN collectors : collectors[j].id = i].messages
    ELSE futures[i].value

\* the arrival numbers of the messages that arrived while capture i was open
OpenWindow(i) ==
    LET first == futures[i].openedAt + 1
        final == IF futures[i].state = "pending" THEN Len(received)
                 ELSE futures[i].closedAt
    IN  [n \in 1..(final - first + 1) |-> first + n - 1]

\* the message that arrived last
LastMsg == ReceivedMsg(Len(received))

\* the last operation received a line, and the line parsed
LineParsed == last.op = "recv" /\ ParsedLines[last.arg].ok

\* the handlers registered for the type of the message that arrived last, as
\* Object.values lists them
LastHandlers ==
    IF LastMsg.cls \in DOMAIN events THEN ObjectValues(events[LastMsg.cls]) ELSE <<>>

\* the captures a sent CAP LS or CAP LIST opened
ListingCaptures ==
    { i \in DOMAIN futures :
        /\ futures[i].originalMessage.cls = "CapabilityNegotiation"
        /\ ParamOf(futures[i].originalMessage, "command").v \in {LS, LIST} }

\* the j-th message that arrived is a CAP reply with the sub-command of capture i
SameSubCommand(i, j) ==
    /\ ReceivedMsg(j).cls = "CapabilityNegotiation"
    /\ ParamOf(ReceivedMsg(j), "command") = ParamOf(futures[i].originalMessage, "command")

\* the line of the j-th message carries the continuation marker: a parameter
\* token "*" that is not the trailing one, right after the sub-command
WireContinued(j) ==
    LET ps == tokenize(InLines[received[j]]).params
    IN  \E n \in 2..Len(ps) :
           /\ ~ps[n].trailing
           /\ ps[n].value = <<"*">>
           /\ ToUpperCase(ps[n - 1].value) \in {LS, LIST}

C2_AckNakAccepted ==
    (LineParsed
        /\ LastMsg.cls = "CapabilityNegotiation"
        /\ ParamOf(LastMsg, "command").v \in {ACK, NAK}) =>
    \A i \in DOMAIN last.outcome :
        LET originalMessage == futures[i].originalMessage
            caps == ParamOf(LastMsg, "capabilities")
            matches == /\ originalMessage.cls = "CapabilityNegotiation"
                       /\ ParamOf(originalMessage, "command") = Defined(REQ)
                       /\ caps.def
                       /\ ParamOf(originalMessage, "capabilities") = Defined(Trim(caps.v))
        IN  /\ last.outcome[i] \in {Yes, No}
            /\ last.outcome[i] = Yes <=> matches
            /\ matches => /\ futures[i].state = "fulfilled"
                          /\ futures[i].value = <<Len(received)>>

\* C3: a sendAndCaptureReply on a message whose class does not support
\* capture fails, registers no capture and hands no line to the connection
C3_CaptureUnsupported ==
    [][(last'.op = "capture" /\ ~SUPPORTS_CAPTURE(OutCommands[last'.arg].cls)) =>
          /\ ~last'.ok
          /\ last'.err = "does not support reply capture"
          /\ UNCHANGED <<collectors, futures, sent>>]_vars

\* C3, witness: sendAndCaptureReply was called on QUIT and failed
C3_Witness ==
    /\ last.op = "capture"
    /\ OutCommands[last.arg].cls = "ClientQuit"
    /\ ~last.ok

\* the captures that were open when the last message arrived
OpenBeforeLast ==
    { i \in DOMAIN futures :
        /\ futures[i].openedAt < Len(received)
        /\ futures[i].state = "pending" \/ futures[i].closedAt = Len(received) }

\* C4: a message that arrives is offered to every capture open at that time,
\* each decides on it as if it were alone (whatever the others accepted),
\* an accepting capture appends it, and it is dispatched to the handlers of
\* its type whatever the captures decided: the handlers are called from the
\* first one on, and only a handler that throws ends the calls
C4_OfferedToAll ==
    LineParsed =>
        /\ DOMAIN last.outcome = OpenBeforeLast
        /\ \A i \in OpenBeforeLast :
              /\ last.outcome[i] = isResponseTo(LastMsg, futures[i].originalMessage)
              /\ last.outcome[i] = Yes =>
                    /\ Accumulated(i) # <<>>
                    /\ Accumulated(i)[Len(Accumulated(i))] = Len(received)
        /\ Len(last.calls) <= Len(LastHandlers)
        /\ \A n \in DOMAIN last.calls : last.calls[n] = LastHandlers[n].name
        /\ LastHandlers # <<>> => last.calls # <<>>
        /\ Len(last.calls) < Len(LastHandlers) =>
              LastHandlers[Len(last.calls)].value = "throws"

\* C4, witness: two captures accepted the same message and a handler of its
\* type was called with it
C4_Witness ==
    /\ LineParsed
    /\ \E i, j \in DOMAIN last.outcome :
          i # j /\ last.outcome[i] = Yes /\ last.outcome[j] = Yes
    /\ last.calls # <<>>

\* C5: the messages a capture has accumulated are exactly the messages that
\* arrived while it was open and are responses to its message, in the order
\* of their arrival
C5_AccumulatedInOrder ==
    \A i \in DOMAIN futures :
        futures[i].state \in {"pending", "fulfilled"} =>
            LET Responds(j) == isResponseTo(ReceivedMsg(j), futures[i].originalMessage) = Yes
            IN  Accumulated(i) = SelectSeq(OpenWindow(i), Responds)

\* C5, witness: a capture was offered a message that is no response to it and
\* then accepted the next one
C5_Witness ==
    \E i \in DOMAIN futures :
        /\ futures[i].openedAt = 0
        /\ Len(received) >= 2
        /\ isResponseTo(ReceivedMsg(1), futures[i].originalMessage) = No
        /\ Accumulated(i) = <<2>>

\* C6, as claimed: when the transport has signalled the disconnect, no
\* capture is pending and the live set is empty
C6_DisconnectCancels ==
    last.op = "disconnect" =>
        /\ collectors = <<>>
        /\ \A i \in DOMAIN futures : futures[i].state # "pending"

\* C7: the live captures are the pending ones, a fulfilled promise carries
\* the messages accumulated up to the completing one, and a promise that is
\* settled never changes again
C7_ClosedForGood ==
    /\ [](\A i \in DOMAIN futures :
            /\ IsLive(i) <=> futures[i].state = "pending"
            /\ futures[i].state = "fulfilled" =>
                  /\ futures[i].value # <<>>
                  /\ futures[i].value[Len(futures[i].value)] = futures[i].closedAt)
    /\ [][\A i \in DOMAIN futures :
            futures[i].state # "pending" => futures'[i] = futures[i]]_vars

\* C7, witness: after a capture completed, another response to its message arrived
C7_Witness ==
    \E i \in DOMAIN futures :
        /\ futures[i].state = "fulfilled"
        /\ futures[i].closedAt < Len(received)
        /\ isResponseTo(LastMsg, futures[i].originalMessage) = Yes

\* C8, as claimed: the line toString writes for a created message parses to
\* a message with the same parameter values and trailing flags
C8_RoundTrip ==
    codec.op = "roundtrip" =>
        /\ codec.res.ok
        /\ codec.res.msg.parsedParams = codec.created.parsedParams

\* what the validator of an entry demands of a value
Suits(value, entry) ==
    /\ entry.type = "channel" => isChannel(value, channelTypes)
    /\ entry.match = "target" => MatchTarget(value)
    /\ entry.match = "command" => MatchCommand(value)
    /\ entry.match = "version" => MatchVersion(value)
    /\ entry.match = "continued" => MatchContinued(value)

\* C9: after a parse or a create that succeeds, every entry that is not
\* optional has a value and every value passes the validator of its entry
C9_ResolvedValid ==
    (codec.op \in {"create", "parse"} /\ codec.res.ok) =>
        \A k \in DOMAIN PARAM_SPEC(codec.cls) :
            LET entry == PARAM_SPEC(codec.cls)[k]
                param == codec.res.msg.parsedParams[k]
            IN  /\ ~entry.optional => param.present
                /\ param.present => Suits(param.value, entry)

\* C9, witness: a line parsed whose token was refused by an optional entry
\* and taken by a later one
C9_Witness ==
    /\ codec.op = "parse" /\ codec.res.ok
    /\ codec.cls = "CapabilityNegotiation"
    /\ ~codec.res.msg.parsedParams[3].present
    /\ codec.res.msg.parsedParams[4].present

\* the number of parameter tokens of a line, the trailing one included
TokenCount(line) == Len(tokenize(line).params)

\* the number of entries of a class that are not optional
RequiredCount(cls) ==
    Cardinality({ k \in DOMAIN PARAM_SPEC(cls) : PARAM_SPEC(cls)[k].optional = FALSE })

\* C10: a line with fewer parameter tokens than its class has entries that
\* are not optional fails with the error of the count, raised before the walk
C10_Underflow ==
    (codec.op = "parse" /\ TokenCount(codec.line) < RequiredCount(codec.cls)) =>
        /\ ~codec.res.ok
        /\ codec.res.err = "expected more parameters"

\* C10, witness: INVITE with one parameter failed with that error
C10_Witness ==
    /\ codec.op = "parse"
    /\ codec.cls = "ChannelInvite"
    /\ TokenCount(codec.line) = 1
    /\ codec.res = Thrown("expected more parameters")

Registered == IF LastMsg.cls \in DOMAIN events THEN events[LastMsg.cls] ELSE <<>>

\* C18: when a handler of the type of a received message throws, every
\* handler registered for that type is called all the same
C18_RemainingHandlersRun ==
    (LineParsed /\ \E i \in DOMAIN Registered : Registered[i].value = "throws") =>
        \A i \in DOMAIN Registered :
            \E n \in DOMAIN last.calls : last.calls[n] = Registered[i].name

\* C19: a received message is handed to the handlers registered for its type
\* and to no other, to each once, in the order of their registration
C19_RegistrationOrder ==
    LineParsed => last.calls = [i \in DOMAIN Registered |-> Registered[i].name]

\* C20: a line whose command no class is registered for parses, whatever
\* its parameter tokens are, into a generic message with that command
C20_UnknownCommandParses ==
    (codec.op = "parse" /\ ~knowsCommand(codec.command)) =>
        /\ codec.res.ok
        /\ codec.res.msg.cls = "Message"
        /\ codec.res.msg.command = codec.command

\* C20, witness: a line of a command that is not registered was parsed, with
\* as many parameter tokens as the bound allows and a trailing parameter
C20_Witness ==
    /\ codec.op = "parse"
    /\ ~knowsCommand(codec.command)
    /\ Len(codec.tokens) = MaxTokens
    /\ codec.trailing.def
    /\ codec.res.ok

\* the message toString was called on, and whether it was built by create
Written == IF codec.op = "roundtrip" THEN codec.created ELSE codec.msg

WrittenByCreate == codec.op = "roundtrip"

\* the entries of the descriptor that have a resolved value in the message
\* written, in descriptor order
RECURSIVE PresentFrom(_, _)
PresentFrom(msg, k) ==
    IF k > Len(msg.parsedParams) THEN <<>>
    ELSE (IF msg.parsedParams[k].present THEN <<k>> ELSE <<>>) \o PresentFrom(msg, k + 1)

\* the line of a message whose present entries are written in descriptor
\* order, the j-th of them with a colon when colon[j] holds
LineOf(msg, present, colon) ==
    Join(<<msg.command>>
         \o [j \in DOMAIN present |->
                (IF colon[j] THEN <<":">> ELSE <<>>) \o msg.parsedParams[present[j]].value],
         " ")

\* the line with the colons where the descriptor has its trailing flags
EntryFlagLine(msg, present) ==
    LineOf(msg, present, [j \in DOMAIN present |-> PARAM_SPEC(msg.cls)[present[j]].trailing])

\* the line with a colon where the token the value was read from was the
\* trailing parameter of the line parsed: the values are read from the
\* tokens in order, one token each
TokenFlagLine(msg, present) ==
    LineOf(msg, present, [j \in DOMAIN present |-> j = Len(codec.tokens) + 1])

\* C16, as claimed: a message, created or parsed, is written as its command
\* and the values of its entries in descriptor order, with a colon before
\* the value of an entry whose descriptor sets trailing
C16_EntryFlag ==
    codec.op \in {"roundtrip", "tostring"} =>
        codec.line = EntryFlagLine(Written, PresentFrom(Written, 1))

\* C16, amended: a message is written as its command and the values of its
\* entries in descriptor order, absent entries left out, with a colon before
\* a value where the flag stored with the value is set: for a created
\* message that is the trailing flag of the descriptor entry, for a parsed
\* message it is set exactly for the value read from the trailing parameter
\* of the line
C16_StoredFlag ==
    codec.op \in {"roundtrip", "tostring"} =>
        codec.line = IF WrittenByCreate
                     THEN EntryFlagLine(Written, PresentFrom(Written, 1))
                     ELSE TokenFlagLine(Written, PresentFrom(Written, 1))

\* C16, witness: a parsed message was written whose value for an entry that
\* is not trailing was read from the trailing parameter of the line, and the
\* value is written with the colon
C16_Witness ==
    /\ codec.op = "tostring"
    /\ codec.trailing.def
    /\ \E k \in DOMAIN codec.msg.parsedParams :
          /\ codec.msg.parsedParams[k].present
          /\ codec.msg.parsedParams[k].trailing
          /\ ~PARAM_SPEC(codec.cls)[k].trailing
    /\ codec.line # EntryFlagLine(codec.msg, PresentFrom(codec.msg, 1))

\* the characters the claim keeps out of a channel name after its first one
ClaimedForbidden == {" ", BELL, NUL, ",", "\r", "\n"}

\* C15: isChannel(str, types) holds exactly when the first character of str
\* is one of types and the rest of str, at least one character, has no
\* space, BELL, NUL, comma, CR or LF
C15_IsChannel ==
    codec.op = "isChannel" =>
        (codec.res <=>
            /\ Len(codec.str) >= 2
            /\ codec.str[1] \in Range(codec.validTypes)
            /\ \A i \in 2..Len(codec.str) : codec.str[i] \notin ClaimedForbidden)

\* the places of a character in a text
Places(s, c) == { i \in DOMAIN s : s[i] = c }

\* the text between two places
Between(s, i, j) == SubSeq(s, i + 1, j - 1)

\* a prefix of the form nick!user@host, nick!rest, nick@host or nick, with
\* every part non-empty and without further "!" or "@", and what the claim
\* has parsePrefix yield for it
ClaimedPrefix(raw) ==
    LET bangs == Places(raw, "!")
        ats == Places(raw, "@")
        b == CHOOSE i \in bangs : TRUE
        a == CHOOSE i \in ats : TRUE
        end == Len(raw) + 1
        Of(nick, user, host) == [shaped |-> TRUE, nick |-> nick, user |-> user, host |-> host]
    IN  IF Cardinality(bangs) = 1 /\ Cardinality(ats) = 1 /\ 1 < b /\ b + 1 < a /\ a < Len(raw)
        THEN Of(Between(raw, 0, b), Defined(Between(raw, b, a)), Defined(Between(raw, a, end)))
        ELSE IF Cardinality(bangs) = 1 /\ ats = {} /\ 1 < b /\ b < Len(raw)
        THEN Of(Between(raw, 0, b), Undefined, Defined(Between(raw, b, end)))
        ELSE IF bangs = {} /\ Cardinality(ats) = 1 /\ 1 < a /\ a < Len(raw)
        THEN Of(Between(raw, 0, a), Undefined, Defined(Between(raw, a, end)))
        ELSE IF bangs = {} /\ ats = {} /\ Len(raw) > 0
        THEN Of(raw, Undefined, Undefined)
        ELSE [shaped |-> FALSE]

\* C13: parsePrefix yields nick, user and host of nick!user@host, nick and
\* host of nick!rest and of nick@host, and the nick alone of nick
C13_ParsePrefix ==
    (codec.op = "parsePrefix" /\ ClaimedPrefix(codec.raw).shaped) =>
        /\ codec.res.nick = ClaimedPrefix(codec.raw).nick
        /\ codec.res.user = ClaimedPrefix(codec.raw).user
        /\ codec.res.host = ClaimedPrefix(codec.raw).host

\* tag-value decoding as the claim has it: one pass from the left, the five
\* escapes replaced, a backslash and any other character after it dropped
RECURSIVE ClaimedDecode(_)
ClaimedDecode(s) ==
    IF Len(s) = 0 THEN <<>>
    ELSE IF Len(s) >= 2 /\ s[1] = "\\"
    THEN (IF s[2] \in {"\\", ":", "n", "r", "s"} THEN <<tagEscapeMap(s[2])>> ELSE <<>>)
            \o ClaimedDecode(SubSeq(s, 3, Len(s)))
    ELSE <<s[1]>> \o ClaimedDecode(Tail(s))

\* C14: a tag value is decoded in one pass from the left, the escapes for
\* backslash, semicolon, LF, CR and space replaced and a backslash with any
\* other character after it dropped
C14_TagDecoding ==
    codec.op = "parseTags" =>
        /\ codec.res.ok
        /\ codec.res.tags = << [name |-> <<"k">>, value |-> ClaimedDecode(codec.tagValue)] >>

\* the tokenizer as the claim has it: a token with "@" is the tag block
\* only as long as no tag block, no prefix and no command was seen, a token
\* with ":" the prefix only as long as no prefix and no command was seen and
\* the trailing parameter otherwise, the first other token the command,
\* upper-cased, and every token after the command a parameter
RECURSIVE ClaimedLoop(_, _, _, _, _, _)
ClaimedLoop(splitLine, command, params, tags, hasTags, prefix) ==
    IF Len(splitLine) = 0
    THEN [ok |-> TRUE, err |-> "", command |-> command, params |-> params,
          tags |-> tags, hasTags |-> hasTags, prefix |-> prefix]
    ELSE
    LET token == splitLine[1]
        first == IF Len(token) > 0 THEN token[1] ELSE ""
        rest == Tail(splitLine)
        noCommand == Len(command) = 0
    IN  IF first = "@" /\ ~hasTags /\ ~prefix.set /\ noCommand
        THEN LET t == parseTags(Substr1(token))
             IN  IF ~t.ok THEN Thrown(t.err)
                 ELSE ClaimedLoop(rest, command, params, t.tags, TRUE, prefix)
        ELSE IF first = ":"
        THEN IF ~prefix.set /\ noCommand
             THEN ClaimedLoop(rest, command, params, tags, hasTags,
                              [set |-> TRUE] @@ parsePrefix(Substr1(token)))
             ELSE [ok |-> TRUE, err |-> "", command |-> command,
                   params |-> Append(params, [value |-> Substr1(Join(splitLine, " ")),
                                              trailing |-> TRUE]),
                   tags |-> tags, hasTags |-> hasTags, prefix |-> prefix]
        ELSE IF noCommand
        THEN ClaimedLoop(rest, ToUpperCase(token), params, tags, hasTags, prefix)
        ELSE ClaimedLoop(rest, command, Append(params, [value |-> token, trailing |-> FALSE]),
                         tags, hasTags, prefix)

\* C12: a token with "@" is taken as the tag block only before any prefix
\* and any command, a token with ":" as the prefix only when no prefix and
\* no command was seen, one token is the command, upper-cased, and all that
\* follows it are parameters
C12_Tokenizer ==
    codec.op = "tokenize" =>
        codec.res = ClaimedLoop(Split(codec.line, " "), <<>>, <<>>, <<>>, FALSE, NoPrefix)

\* C17: the resolution of a token stream with at least minParamCount tokens
\* against a descriptor that satisfies the invariants never ends in the
\* failure 'not enough parameters left for required parameters parsing'
C17_NoConsistencyFailure ==
    (/\ codec.op = "parseParams"
     /\ ValidDescriptor(codec.paramSpecList)
     /\ Len(codec.params) >= minParamCountOf(codec.paramSpecList)) =>
        (codec.res.ok \/ codec.res.err # "not enough parameters left")

\* the keys of the tags of a tag block: the text of each tag up to its "="
TagKeys(block) ==
    { Split2(tag, "=")[1] : tag \in Range(Split(block, ";")) }

\* the first token of a line
FirstToken(line) == Split(line, " ")[1]

\* C21: a line that begins with a tag block, with or without values for its
\* tags, tokenizes without error, and its tags hold every key of the block
C21_TagsWithoutValue ==
    (/\ codec.op = "tokenize"
     /\ Len(FirstToken(codec.line)) > 1
     /\ FirstToken(codec.line)[1] = "@") =>
        /\ codec.res.ok
        /\ \A key \in TagKeys(Substr1(FirstToken(codec.line))) :
              \E i \in DOMAIN codec.res.tags : codec.res.tags[i].name = key

\* the tokens of the line parsed, the trailing parameter last
Stream ==
    [i \in 1..Len(codec.tokens) |-> [value |-> codec.tokens[i], trailing |-> FALSE]]
        \o (IF codec.trailing.def
            THEN << [value |-> codec.trailing.v, trailing |-> TRUE] >> ELSE <<>>)

\* the resolved parameters of a CAP message
CapParams(target, command, version, continued, capabilities) ==
    <<target, command, version, continued, capabilities>>

\* C22: an entry consumes a token only when it stores it, so the values
\* stored are the first tokens of the line in their order, whichever
\* optional entries were skipped or rejected a token on the way; CAP * LS
\* :a b resolves target, command and capabilities, CAP * LS * :a b
\* resolves continued as well, and version stays absent in both
C22_ConsumeOnStore ==
    (codec.op = "parse" /\ codec.res.ok /\ knowsCommand(codec.command)) =>
        LET msg == codec.res.msg
            present == PresentFrom(msg, 1)
            star == <<"*">>
            ls == <<"L", "S">>
            ab == <<"a", " ", "b">>
        IN  /\ Len(present) <= Len(Stream)
            /\ \A j \in DOMAIN present :
                  /\ msg.parsedParams[present[j]].value = Stream[j].value
                  /\ msg.parsedParams[present[j]].trailing = Stream[j].trailing
            /\ (codec.cls = "CapabilityNegotiation" /\ codec.trailing = Defined(ab)) =>
                  /\ codec.tokens = <<star, ls>> =>
                        msg.parsedParams = CapParams(Param(star, FALSE), Param(ls, FALSE),
                                                     NoParam, NoParam, Param(ab, TRUE))
                  /\ codec.tokens = <<star, ls, star>> =>
                        msg.parsedParams = CapParams(Param(star, FALSE), Param(ls, FALSE),
                                                     NoParam, Param(star, FALSE), Param(ab, TRUE))

\* C22, witness: CAP * LS * :a b was parsed; the entry version rejected the
\* star, and the entry continued took it
C22_Witness ==
    /\ codec.op = "parse"
    /\ codec.cls = "CapabilityNegotiation"
    /\ codec.tokens = << <<"*">>, <<"L", "S">>, <<"*">> >>
    /\ codec.trailing = Defined(<<"a", " ", "b">>)
    /\ codec.res.ok
    /\ ~codec.res.msg.parsedParams[3].present
    /\ codec.res.msg.parsedParams[4].present

\* C23: a capture is registered before the line of its message is handed
\* to the connection, the line being the next one sent after it, and every
\* message that arrives from then on, as long as the capture is open, is
\* offered to it
C23_RegisteredBeforeSent ==
    /\ \A i \in DOMAIN futures :
          /\ futures[i].sentBefore < Len(sent)
          /\ sent[futures[i].sentBefore + 1] = toString(futures[i].originalMessage)
    /\ LineParsed =>
          \A i \in DOMAIN futures :
              (futures[i].state = "pending" \/ futures[i].closedAt = Len(received)) =>
                  i \in DOMAIN last.outcome

\* C23, witness: a capture that was registered between two arrivals was
\* offered the message that arrived after its line was sent
C23_Witness ==
    /\ LineParsed
    /\ \E i \in DOMAIN last.outcome :
          /\ futures[i].openedAt > 0
          /\ futures[i].sentBefore > 0

\* the sockets of the connection that have emitted 'close'
Closed(c) == { s \in DOMAIN c.sockets : c.sockets[s].state = "closed" }

\* C24: when a socket closes, it has emitted 'disconnect' exactly once (the
\* error listener did when there was an error, the close listener
\* otherwise), _connected and _connecting are false and there is no socket
\* to write to; a socket that has closed emits no further 'disconnect', and
\* nothing is written to it
C24_OneDisconnect ==
    [][/\ \A s \in Closed(connection') \ Closed(connection) :
             /\ connection'.sockets[s].disconnects = 1
             /\ ~connection'._connected
             /\ ~connection'._connecting
             /\ connection'._socket = 0
       /\ \A s \in Closed(connection) :
             connection'.sockets[s] = connection.sockets[s]
       /\ \A s \in DOMAIN connection.sockets :
             connection'.sockets[s].disconnects <= 1]_vars

\* C24, witness: one socket closed after an error and another without, each
\* with one 'disconnect', and sendRaw was called when both had closed
C24_Witness ==
    /\ connection.op = "sendRaw"
    /\ connection._socket = 0
    /\ Len(connection.sockets) = 2
    /\ Closed(connection) = {1, 2}
    /\ \E s \in {1, 2} : connection.sockets[s].promise = "rejected"
    /\ \E s \in {1, 2} : connection.sockets[s].promise = "resolved"
    /\ \A s \in {1, 2} : connection.sockets[s].disconnects = 1

====
